---- MODULE Spec2Model ----
(***************************************************************************)
(* A model of the TeleMind bot (src/main.py): the webhook handler, the     *)
(* in-memory session map, the Firestore user records and the rule-based    *)
(* intent classifier and task extractor.  Texts are TLA+ strings; str      *)
(* methods and the two regular expressions are computed character by       *)
(* character.                                                              *)
(***************************************************************************)
EXTENDS Integers, Sequences, FiniteSets, TLC

VARIABLES
    db,             \* Firestore users collection: user id -> record or NoRecord
    contents,       \* users/<id>/document_contents: user id -> sequence of records
    user_sessions,  \* main.py user_sessions: user id -> UserSession or NoSession
    req,            \* the webhook requests in flight: slot -> frame of the coroutine
    now,            \* time.time(), in units of TickSeconds
    nextReap,       \* the time at which the reaper's sleep ends
    nreq,           \* number of webhook requests received so far
    hist,           \* history: user id -> every Message appended to the user's current session
    call            \* a direct call of one pure function: [fn, text, out]

vars == <<db, contents, user_sessions, req, now, nextReap, nreq, hist, call>>

(***************************************************************************)
(* Python values                                                           *)
(***************************************************************************)
\* None is the empty tuple and a present optional string s is <<s>>, so that a
\* string is never compared with None.
None == <<>>
Some(s) == <<s>>

Min(a, b) == IF a < b THEN a ELSE b
Max(a, b) == IF a > b THEN a ELSE b

\* seq[-k:] for k > 0
LastK(seq, k) == SubSeq(seq, Max(1, Len(seq) - k + 1), Len(seq))

(***************************************************************************)
(* str methods                                                             *)
(***************************************************************************)
UpperChars == "ABCDEFGHIJKLMNOPQRSTUVWXYZ"
LowerChars == "abcdefghijklmnopqrstuvwxyz"
DigitChars == "0123456789"
Whitespace == {" ", "\t", "\n"}

Char(s, i) == SubSeq(s, i, i)

IsDigitAt(s, i) == i >= 1 /\ i <= Len(s) /\ \E d \in 1..10 : Char(DigitChars, d) = Char(s, i)

LowerChar(c) ==
    IF \E i \in 1..26 : Char(UpperChars, i) = c
    THEN Char(LowerChars, CHOOSE i \in 1..26 : Char(UpperChars, i) = c)
    ELSE c

RECURSIVE StrLower(_)
\* str.lower() on ASCII text
StrLower(s) == IF s = "" THEN "" ELSE LowerChar(Char(s, 1)) \o StrLower(Tail(s))

\* s[i-1:].startswith(p), i counted from 1
MatchesAt(s, p, i) == i >= 1 /\ i + Len(p) - 1 <= Len(s) /\ SubSeq(s, i, i + Len(p) - 1) = p

RECURSIVE FindFrom(_, _, _)
\* s.find(p) scanning from position i (1-based); 0 when absent (Python's -1)
FindFrom(s, p, i) ==
    IF i + Len(p) - 1 > Len(s) THEN 0
    ELSE IF MatchesAt(s, p, i) THEN i
    ELSE FindFrom(s, p, i + 1)

StrFind(s, p) == FindFrom(s, p, 1)

\* p in s
StrIn(p, s) == StrFind(s, p) # 0

StrStartsWith(s, p) == MatchesAt(s, p, 1)

StrEndsWith(s, p) == Len(p) <= Len(s) /\ MatchesAt(s, p, Len(s) - Len(p) + 1)

RECURSIVE LStrip(_)
LStrip(s) == IF s # "" /\ Char(s, 1) \in Whitespace THEN LStrip(Tail(s)) ELSE s

RECURSIVE RStrip(_)
RStrip(s) ==
    IF s # "" /\ Char(s, Len(s)) \in Whitespace THEN RStrip(SubSeq(s, 1, Len(s) - 1)) ELSE s

\* str.strip()
StrStrip(s) == RStrip(LStrip(s))

RECURSIVE TokenEnd(_, _)
\* the index of the last character of the token that starts at i
TokenEnd(s, i) ==
    IF i + 1 <= Len(s) /\ Char(s, i + 1) \notin Whitespace THEN TokenEnd(s, i + 1) ELSE i

\* text.split()[0] for a text that starts with a non-whitespace character
FirstToken(s) == SubSeq(s, 1, TokenEnd(s, 1))

RECURSIVE AnyIn(_, _)
\* any(phrase in s for phrase in phrases), phrases a list scanned in order
AnyIn(phrases, s) ==
    IF phrases = <<>> THEN FALSE
    ELSE IF StrIn(Head(phrases), s) THEN TRUE
    ELSE AnyIn(Tail(phrases), s)

(***************************************************************************)
(* analyze_intent                                                          *)
(***************************************************************************)
TaskPhrases == <<"remind me to", "add task", "create task", "remember to", "don't forget to">>
NotePhrases == <<"save note", "save this", "take note", "note this", "remember this", "remember that">>

analyze_intent_note_first(text) ==
    LET text_lower == StrLower(text) IN
    IF AnyIn(NotePhrases, text_lower) THEN [intent |-> "note_create"]
    ELSE IF AnyIn(TaskPhrases, text_lower) THEN [intent |-> "task_create"]
    ELSE [intent |-> "general_chat"]

analyze_intent(text) ==
    LET text_lower == StrLower(text) IN
    IF AnyIn(TaskPhrases, text_lower) THEN [intent |-> "task_create"]
    ELSE IF AnyIn(NotePhrases, text_lower) THEN [intent |-> "note_create"]
    ELSE [intent |-> "general_chat"]

(***************************************************************************)
(* extract_task_info                                                       *)
(***************************************************************************)
DateWords ==
    <<"today", "tomorrow", "monday", "tuesday", "wednesday", "thursday", "friday",
      "saturday", "sunday">>

RECURSIVE FirstWordAt(_, _, _)
\* the first alternative of the word list that matches at i, or None
FirstWordAt(words, s, i) ==
    IF words = <<>> THEN None
    ELSE IF MatchesAt(s, Head(words), i) THEN Some(Head(words))
    ELSE FirstWordAt(Tail(words), s, i)

\* \d{1,2}<sep>\d{1,2} at i: greedy, two digits tried before one; None when no match
NumPairAt(s, sep, i) ==
    LET second(j) == IF IsDigitAt(s, j + 1) THEN j + 1 ELSE j
    IN  IF IsDigitAt(s, i) /\ IsDigitAt(s, i + 1) /\ MatchesAt(s, sep, i + 2) /\ IsDigitAt(s, i + 3)
        THEN Some(SubSeq(s, i, second(i + 3)))
        ELSE IF IsDigitAt(s, i) /\ MatchesAt(s, sep, i + 1) /\ IsDigitAt(s, i + 2)
        THEN Some(SubSeq(s, i, second(i + 2)))
        ELSE None

\* the date pattern at position i, alternatives in the order of the pattern
DateAt(s, i) ==
    IF FirstWordAt(DateWords, s, i) # None THEN FirstWordAt(DateWords, s, i)
    ELSE IF NumPairAt(s, "/", i) # None THEN NumPairAt(s, "/", i)
    ELSE NumPairAt(s, "-", i)

\* \d{1,2}:\d{2} at i
ClockAt(s, i) ==
    IF IsDigitAt(s, i) /\ IsDigitAt(s, i + 1) /\ MatchesAt(s, ":", i + 2)
       /\ IsDigitAt(s, i + 3) /\ IsDigitAt(s, i + 4)
    THEN Some(SubSeq(s, i, i + 4))
    ELSE IF IsDigitAt(s, i) /\ MatchesAt(s, ":", i + 1) /\ IsDigitAt(s, i + 2) /\ IsDigitAt(s, i + 3)
    THEN Some(SubSeq(s, i, i + 3))
    ELSE None

\* \d{1,2} (am|pm) at i: the digits, one space, then am or pm
MeridiemAt(s, i) ==
    LET ampm(j) == MatchesAt(s, " am", j) \/ MatchesAt(s, " pm", j)
    IN  IF IsDigitAt(s, i) /\ IsDigitAt(s, i + 1) /\ ampm(i + 2) THEN Some(SubSeq(s, i, i + 4))
        ELSE IF IsDigitAt(s, i) /\ ampm(i + 1) THEN Some(SubSeq(s, i, i + 3))
        ELSE None

TimeAt(s, i) == IF ClockAt(s, i) # None THEN ClockAt(s, i) ELSE MeridiemAt(s, i)

RECURSIVE SearchDate(_, _)
\* re.search(date pattern, s): the leftmost match, scanning from i; group(1) or None
SearchDate(s, i) ==
    IF i > Len(s) THEN None
    ELSE IF DateAt(s, i) # None THEN DateAt(s, i)
    ELSE SearchDate(s, i + 1)

RECURSIVE SearchTime(_, _)
\* re.search(time pattern, s): the leftmost match, scanning from i; group(1) or None
SearchTime(s, i) ==
    IF i > Len(s) THEN None
    ELSE IF TimeAt(s, i) # None THEN TimeAt(s, i)
    ELSE SearchTime(s, i + 1)

TaskPrefixes ==
    <<"remind me to", "add task:", "add task", "create task:", "create task", "remember to",
      "don't forget to">>

RECURSIVE CleanTask(_, _, _)
\* a clean-up that removes a prefix only from the front of the text
RECURSIVE CleanTaskAtFront(_, _, _)
CleanTaskAtFront(prefixes, text, text_lower) ==
    IF prefixes = <<>> THEN text
    ELSE IF StrStartsWith(text_lower, Head(prefixes))
    THEN StrStrip(SubSeq(text, Len(Head(prefixes)) + 1, Len(text)))
    ELSE CleanTaskAtFront(Tail(prefixes), text, text_lower)

\* the loop over the prefixes: the first prefix of the list found anywhere in the
\* lower-cased text cuts the original text after its first occurrence
CleanTask(prefixes, text, text_lower) ==
    IF prefixes = <<>> THEN text
    ELSE IF StrIn(Head(prefixes), text_lower)
    THEN StrStrip(SubSeq(text, StrFind(text_lower, Head(prefixes)) + Len(Head(prefixes)), Len(text)))
    ELSE CleanTask(Tail(prefixes), text, text_lower)

\* an extractor that knows one phrase only
extract_task_info_remind_only(text) ==
    LET text_lower == StrLower(text) IN
    IF ~StrIn("remind me to", text_lower) THEN [is_task |-> FALSE]
    ELSE [is_task  |-> TRUE,
          task     |-> CleanTask(TaskPrefixes, text, text_lower),
          due_date |-> SearchDate(text_lower, 1),
          due_time |-> SearchTime(text_lower, 1),
          priority |-> "medium"]

extract_task_info_always(text) ==
    LET text_lower == StrLower(text) IN
    [is_task  |-> TRUE,
     task     |-> CleanTask(TaskPrefixes, text, text_lower),
     due_date |-> SearchDate(text_lower, 1),
     due_time |-> SearchTime(text_lower, 1),
     priority |-> "medium"]

extract_task_info(text) ==
    LET text_lower == StrLower(text) IN
    IF ~AnyIn(TaskPhrases, text_lower) THEN [is_task |-> FALSE]
    ELSE [is_task  |-> TRUE,
          task     |-> CleanTask(TaskPrefixes, text, text_lower),
          due_date |-> SearchDate(text_lower, 1),
          due_time |-> SearchTime(text_lower, 1),
          priority |-> "medium"]

(***************************************************************************)
(* Bounds and program constants                                            *)
(***************************************************************************)
Users == {"u1", "u2"}
Slots == {1, 2}

MaxReqs == 1            \* webhook requests received in Spec
MaxTurns == 7           \* webhook requests received in SpecSession
SessionMaxTime == 1     \* clock ticks in SpecSession
ReaperMaxReqs == 3      \* webhook requests received in SpecReaper
ReaperMaxTime == 6      \* clock ticks in SpecReaper
MaxFrags == 2           \* fragments per text in SpecText
ConcMaxReqs == 3        \* webhook requests received in SpecConc

ContextWindow == 10     \* UserSession.context_window
TickSeconds == 600      \* one unit of `now`; events happen at multiples of it
ReaperPeriod == 600     \* the reaper's sleep between runs, seconds
IdleThreshold == 1800   \* the reaper's idle threshold, seconds
TailLength == 5         \* the persisted tail of a conversation

(***************************************************************************)
(* Firestore: the users collection                                         *)
(***************************************************************************)
NoRecord == [exists |-> FALSE]

\* get_user_data's default_data
DefaultData(stamp) ==
    [notes |-> <<>>, tasks |-> <<>>, files |-> <<>>, conversation |-> <<>>, created_at |-> stamp]

InSeq(x, seq) == \E i \in 1..Len(seq) : seq[i] = x

\* firestore.ArrayUnion([value]) on a stored array: adds the value unless it is there
ArrayUnion(arr, value) == IF InSeq(value, arr) THEN arr ELSE Append(arr, value)

\* doc_ref.update({field: ArrayUnion([value])}) raises NotFound on a missing document
UpdateRaises(record) == record = NoRecord

\* the record after doc_ref.update({field: ArrayUnion([value])}) on an existing document
ArrayUnionField(record, field, value) ==
    [record EXCEPT ![field] = IF field \in DOMAIN record THEN ArrayUnion(@, value) ELSE <<value>>]

\* doc_ref.set(data, merge=True): creates the document or overwrites the given fields
SetMerge(record, data) ==
    IF record = NoRecord THEN data
    ELSE [k \in DOMAIN record \cup DOMAIN data |-> IF k \in DOMAIN data THEN data[k] ELSE record[k]]

(***************************************************************************)
(* Sessions and messages                                                   *)
(***************************************************************************)
NoSession == [exists |-> FALSE]

\* Message(role=..., content=..., timestamp=time.time())
Message(role, content, stamp) == [role |-> role, content |-> content, timestamp |-> stamp]

\* UserSession.__init__; oid is the identity of the object (the request that made it)
UserSession(user_id, stamp, oid) ==
    [user_id |-> user_id, messages |-> <<>>, last_interaction |-> stamp,
     context_window |-> ContextWindow, oid |-> oid]

\* session.messages[-session.context_window:] when the list is longer than the window
TruncateKeepFirst(messages, window) ==
    IF Len(messages) > window THEN SubSeq(messages, 1, window) ELSE messages

Truncate(messages, window) ==
    IF Len(messages) > window THEN LastK(messages, window) ELSE messages

SystemPrompt == "You are TeleMind, a helpful personal assistant on Telegram."

\* the messages of the completion request: the system prompt, then role and content only
RECURSIVE WireMessages(_)
WireMessages(messages) ==
    IF messages = <<>> THEN <<>>
    ELSE <<[role |-> Head(messages).role, content |-> Head(messages).content]>>
         \o WireMessages(Tail(messages))

\* a request whose system prompt comes after the conversation
LLMRequestSystemLast(messages) ==
    WireMessages(messages) \o <<[role |-> "system", content |-> SystemPrompt]>>

LLMRequest(messages) == <<[role |-> "system", content |-> SystemPrompt]>> \o WireMessages(messages)

(***************************************************************************)
(* Reply texts.  A pictograph of the source is written as its :short_name: *)
(***************************************************************************)
RECURSIVE IntStr(_)
\* str(n) for n >= 0
IntStr(n) == IF n < 10 THEN Char(DigitChars, n + 1) ELSE IntStr(n \div 10) \o Char(DigitChars, (n % 10) + 1)

StartReply ==
    ":wave: Hello! I'm your personal assistant. I can help you with tasks, notes, and files. How can I assist you today?"
HelpReply == "\nI can help you with:\n\n*Task Management*\n ... \nJust chat naturally with me!\n"
NoTasksReply == ":mailbox_with_no_mail: You don't have any tasks yet."
NoNotesReply == ":mailbox_with_no_mail: You don't have any notes yet."
NoFilesReply == ":mailbox_with_no_mail: You don't have any files yet."
NoteSavedReply == ":memo: Note saved!"
WebhookApology == "Sorry, I encountered an unexpected error. Please try again."
\* a reply that passes the exception text on to the user
ExceptionTextReply == "Error calling Groq API: timeout"
ConversationApology ==
    "I apologize, but I encountered an issue processing your request. Please try again."

\* " for <date>" and " at <time>" of the task acknowledgment and " (Due: ...)" of the list
DueStr(task_info, open, close) ==
    IF task_info.due_date # None
    THEN open \o task_info.due_date[1]
         \o (IF task_info.due_time # None THEN " at " \o task_info.due_time[1] ELSE "")
         \o close
    ELSE ""

TaskAddedReply(task_info) ==
    ":white_check_mark: Task added: " \o task_info.task \o DueStr(task_info, " for ", "")

RECURSIVE TaskLines(_, _)
TaskLines(tasks, i) ==
    IF i > Len(tasks) THEN ""
    ELSE IntStr(i) \o ". "
         \o (IF tasks[i].completed THEN ":white_check_mark:" ELSE ":hourglass:") \o " "
         \o tasks[i].task \o DueStr(tasks[i], " (Due: ", ")") \o "\n"
         \o TaskLines(tasks, i + 1)

RECURSIVE NoteLines(_, _)
\* the creation date of a note is printed by strftime; the model prints the stamp
NoteLines(notes, i) ==
    IF i > Len(notes) THEN ""
    ELSE IntStr(i) \o ". " \o notes[i].content \o " _" \o IntStr(notes[i].timestamp[1]) \o "_\n\n"
         \o NoteLines(notes, i + 1)

RECURSIVE FileLines(_, _)
FileLines(files, i) ==
    IF i > Len(files) THEN ""
    ELSE IntStr(i) \o ". "
         \o (IF files[i].type = "documents" THEN ":page_facing_up:"
             ELSE IF files[i].type = "images" THEN ":frame_with_picture:" ELSE ":file_folder:")
         \o " [" \o files[i].name \o "](" \o files[i].url \o ")\n"
         \o FileLines(files, i + 1)

\* user_data.get(field, [])
GetList(user_data, field) == IF field \in DOMAIN user_data THEN user_data[field] ELSE <<>>

\* a listing that is sent whether or not it has entries
ListReplyNoEmptyCase(cmd, user_data) ==
    IF cmd = "/tasks" THEN ":clipboard: *Your Tasks*:\n\n" \o TaskLines(GetList(user_data, "tasks"), 1)
    ELSE IF cmd = "/notes" THEN ":memo: *Your Notes*:\n\n" \o NoteLines(GetList(user_data, "notes"), 1)
    ELSE ":card_index_dividers: *Your Files*:\n\n" \o FileLines(GetList(user_data, "files"), 1)

\* the reply of /tasks, /notes and /files for the user data read
ListReply(cmd, user_data) ==
    IF cmd = "/tasks"
    THEN IF GetList(user_data, "tasks") = <<>> THEN NoTasksReply
         ELSE ":clipboard: *Your Tasks*:\n\n" \o TaskLines(GetList(user_data, "tasks"), 1)
    ELSE IF cmd = "/notes"
    THEN IF GetList(user_data, "notes") = <<>> THEN NoNotesReply
         ELSE ":memo: *Your Notes*:\n\n" \o NoteLines(GetList(user_data, "notes"), 1)
    ELSE IF GetList(user_data, "files") = <<>> THEN NoFilesReply
         ELSE ":card_index_dividers: *Your Files*:\n\n" \o FileLines(GetList(user_data, "files"), 1)

(***************************************************************************)
(* The webhook handler: one frame per request                              *)
(***************************************************************************)
StaticCommands == {"/start", "/help"}
ListCommands == {"/tasks", "/notes", "/files"}

\* cmd = text.split()[0].lower() of a text that starts with "/", else None
Command(text) == IF StrStartsWith(text, "/") THEN Some(StrLower(FirstToken(text))) ELSE None

\* a dispatch that classifies every text by intent, a leading "/" or not
TextRouteByIntent(text) ==
    LET intent == analyze_intent(text).intent IN
    IF intent = "task_create"
    THEN IF extract_task_info(text).is_task = FALSE THEN "conversation" ELSE "task_create"
    ELSE IF intent = "note_create" THEN "note_create"
    ELSE IF StrStartsWith(text, "/") /\ StrLower(FirstToken(text)) \in {"/start", "/help", "/tasks", "/notes", "/files"}
    THEN StrLower(FirstToken(text))
    ELSE "conversation"

\* where telegram_webhook takes a text: a command handler, or by intent
TextRoute(text) ==
    LET cmd == Command(text) IN
    IF cmd # None /\ cmd[1] \in StaticCommands \cup ListCommands THEN cmd[1]
    ELSE LET intent == analyze_intent(text).intent IN
         IF intent = "task_create"
         THEN IF extract_task_info(text).is_task = FALSE THEN "conversation" ELSE "task_create"
         ELSE IF intent = "note_create" THEN "note_create"
         ELSE "conversation"

IdleFrame ==
    [pc |-> "idle", id |-> 0, kind |-> "none", chat_id |-> None, user_id |-> None,
     text |-> "", route |-> "none", sent |-> <<>>, resp |-> "none", raised |-> FALSE,
     created |-> FALSE, seeded |-> <<>>, session |-> 0, llm_request |-> <<>>,
     file_name |-> "", file_type |-> "", file_url |-> "", cloud |-> "none",
     pages |-> <<>>, ocr |-> "", ocr_engine |-> "none",
     pdf |-> None]

\* time.time() as read by request id: the clock, and the request's rank within the tick
Stamp(id) == <<now, id>>

\* send_message(chat_id, text): the call is recorded; it never raises
Send(f, text) == [f EXCEPT !.sent = Append(@, text)]

\* return {"ok": True}
Return(f) == [f EXCEPT !.pc = "done", !.resp = "ack"]

\* an exception that leaves the handler with no outer try: the transport sees it
Propagate(f) == [f EXCEPT !.pc = "done", !.resp = "error", !.raised = TRUE]

\* an except clause that logs and sends nothing
RaiseSilently(f) == Return([f EXCEPT !.raised = TRUE])

\* an exception raised inside the try of telegram_webhook: the except clause, then
\* the return at the end of the function
Raise(f) ==
    Return([(IF f.chat_id # None THEN Send(f, WebhookApology) ELSE f) EXCEPT !.raised = TRUE])

Busy(s) == req[s].pc \notin {"idle", "done"}

\* a request arrives and its body is parsed (request.json() to user_id = ...)
Receive(payloads, max, par) ==
    /\ nreq < max
    /\ Cardinality({s \in Slots : Busy(s)}) < par
    /\ \E p \in payloads :
         LET s == CHOOSE x \in Slots : ~Busy(x) /\ \A y \in Slots : ~Busy(y) => x <= y
             f == [IdleFrame EXCEPT !.pc = "dispatch", !.id = nreq + 1, !.kind = p.kind]
         IN  req' = [req EXCEPT ![s] =
                 CASE p.kind = "bad_json" -> Raise(f)
                   [] p.kind = "no_message" -> Return(f)
                   [] p.kind = "no_from" -> Raise([f EXCEPT !.chat_id = Some(p.user)])
                   [] p.kind = "other" ->
                        Return([f EXCEPT !.chat_id = Some(p.user), !.user_id = Some(p.user)])
                   [] OTHER ->
                        [f EXCEPT !.chat_id = Some(p.user), !.user_id = Some(p.user),
                                  !.text = p.text,
                                  !.route = IF p.kind = "text" THEN p.route ELSE p.kind,
                                  !.file_name = p.file_name, !.pages = p.pages, !.ocr = p.ocr]]
    /\ nreq' = nreq + 1
    /\ UNCHANGED <<db, contents, user_sessions, now, nextReap, hist, call>>

\* /start and /help
CmdStatic(s) ==
    LET f == req[s] IN
    /\ f.pc = "dispatch" /\ f.route \in StaticCommands
    /\ req' = [req EXCEPT ![s] = Return(Send(f, IF f.route = "/start" THEN StartReply ELSE HelpReply))]
    /\ UNCHANGED <<db, contents, user_sessions, now, nextReap, nreq, hist, call>>

\* /tasks, /notes, /files: get_user_data up to doc_ref.get
CmdListRead(s) ==
    LET f == req[s]
        u == f.user_id[1]
    IN
    /\ f.pc = "dispatch" /\ f.route \in ListCommands
    /\ \E fails \in BOOLEAN :
         req' = [req EXCEPT ![s] =
                    IF fails THEN Raise(f)
                    ELSE IF db[u] = NoRecord THEN [f EXCEPT !.pc = "get_user_data_set"]
                    ELSE Return(Send(f, ListReply(f.route, db[u])))]
    /\ UNCHANGED <<db, contents, user_sessions, now, nextReap, nreq, hist, call>>

\* get_user_data after doc_ref.get found no document: doc_ref.set(default_data)
CmdListSet(s) ==
    LET f == req[s]
        u == f.user_id[1]
        default_data == DefaultData(Stamp(f.id))
    IN
    /\ f.pc = "get_user_data_set"
    /\ \E fails \in BOOLEAN :
         IF fails
         THEN /\ req' = [req EXCEPT ![s] = Raise(f)]
              /\ db' = db
         ELSE /\ req' = [req EXCEPT ![s] = Return(Send(f, ListReply(f.route, default_data)))]
              /\ db' = [db EXCEPT ![u] = default_data]
    /\ UNCHANGED <<contents, user_sessions, now, nextReap, nreq, hist, call>>

\* add_to_user_array(user_id, field, value): the new record, or NoRecord when it raises
AddToUserArray(record, field, value, fails) ==
    IF fails \/ UpdateRaises(record) THEN NoRecord ELSE ArrayUnionField(record, field, value)

\* the task_data of the task_create branch
TaskData(task_info, stamp) ==
    [task |-> task_info.task, due_date |-> task_info.due_date, due_time |-> task_info.due_time,
     priority |-> task_info.priority, completed |-> FALSE, created_at |-> stamp]

\* intent task_create with a task extracted
CreateTask(s) ==
    LET f == req[s]
        u == f.user_id[1]
        task_info == extract_task_info(f.text)
    IN
    /\ f.pc = "dispatch" /\ f.route = "task_create"
    /\ \E fails \in BOOLEAN :
         LET updated == AddToUserArray(db[u], "tasks", TaskData(task_info, Stamp(f.id)), fails) IN
         IF updated = NoRecord
         THEN /\ req' = [req EXCEPT ![s] = Raise(f)]
              /\ db' = db
         ELSE /\ req' = [req EXCEPT ![s] = Return(Send(f, TaskAddedReply(task_info)))]
              /\ db' = [db EXCEPT ![u] = updated]
    /\ UNCHANGED <<contents, user_sessions, now, nextReap, nreq, hist, call>>

\* intent note_create
CreateNote(s) ==
    LET f == req[s]
        u == f.user_id[1]
        note_data == [content |-> f.text, timestamp |-> Stamp(f.id)]
    IN
    /\ f.pc = "dispatch" /\ f.route = "note_create"
    /\ \E fails \in BOOLEAN :
         LET updated == AddToUserArray(db[u], "notes", note_data, fails) IN
         IF updated = NoRecord
         THEN /\ req' = [req EXCEPT ![s] = Raise(f)]
              /\ db' = db
         ELSE /\ req' = [req EXCEPT ![s] = Return(Send(f, NoteSavedReply))]
              /\ db' = [db EXCEPT ![u] = updated]
    /\ UNCHANGED <<contents, user_sessions, now, nextReap, nreq, hist, call>>

(***************************************************************************)
(* process_conversation                                                    *)
(***************************************************************************)
LLMReplies == {"Sure, happy to help."}

\* one session object kept for every user
PutSessionForAll(sessions, user_id, session) == [u \in DOMAIN sessions |-> session]

\* user_sessions[user_id] holds the session: the map is keyed by the user's id
PutSession(sessions, user_id, session) == [sessions EXCEPT ![user_id] = session]

\* process_conversation up to the completion call (the text is general chat, or a
\* task_create text the extractor refused)
ConversationStart(s) ==
    LET f == req[s]
        u == f.user_id[1]
        created == user_sessions[u] = NoSession
        session == IF created THEN UserSession(u, Stamp(f.id), f.id) ELSE user_sessions[u]
        user_msg == Message("user", f.text, Stamp(f.id))
        messages == Truncate(Append(session.messages, user_msg), session.context_window)
    IN
    /\ f.pc = "dispatch" /\ f.route = "conversation"
    /\ user_sessions' = PutSession(user_sessions, u,
           [session EXCEPT !.last_interaction = Stamp(f.id), !.messages = messages])
    /\ hist' = [hist EXCEPT ![u] = (IF created THEN session.messages ELSE @) \o <<user_msg>>]
    /\ req' = [req EXCEPT ![s] =
           [f EXCEPT !.pc = "completion", !.created = created, !.seeded = session.messages,
                     !.session = session.oid, !.llm_request = LLMRequest(messages)]]
    /\ UNCHANGED <<db, contents, now, nextReap, nreq, call>>

\* a reply written over the message that is last in the list
AppendReplyOverLast(messages, assistant_msg, window) ==
    IF messages = <<>> THEN <<assistant_msg>>
    ELSE [messages EXCEPT ![Len(messages)] = assistant_msg]

\* session.messages.append(assistant_msg): the list as it is left, whatever the window
AppendReply(messages, assistant_msg, window) == Append(messages, assistant_msg)

\* the completion call returns or raises; the reply is sent
ConversationEnd(s) ==
    LET f == req[s]
        u == f.user_id[1]
    IN
    /\ f.pc = "completion"
    /\ \E completion \in {Some(r) : r \in LLMReplies} \cup {None} :
         IF completion = None
         THEN /\ req' = [req EXCEPT ![s] = Return(Send(f, ConversationApology))]
              /\ UNCHANGED <<user_sessions, hist>>
         ELSE LET outcome == completion[1]
                  assistant_msg == Message("assistant", outcome, Stamp(f.id))
                  \* `session` is the object the turn started with; the map may
                  \* hold a newer object, or none, once the reaper has run
                  live == user_sessions[u] # NoSession /\ user_sessions[u].oid = f.session
              IN  /\ req' = [req EXCEPT ![s] = Return(Send(f, outcome))]
                  /\ user_sessions' =
                       IF live
                       THEN [user_sessions EXCEPT ![u].messages =
                                AppendReply(@, assistant_msg, user_sessions[u].context_window)]
                       ELSE user_sessions
                  /\ hist' = IF live THEN [hist EXCEPT ![u] = Append(@, assistant_msg)] ELSE hist
    /\ UNCHANGED <<db, contents, now, nextReap, nreq, call>>

(***************************************************************************)
(* Documents and photos                                                    *)
(***************************************************************************)
MaxChars == 50000       \* process_document's max_chars default

Bucket == "telemindbot-f271b.appspot.com"
BaseUrl == "https://telemind-bot.onrender.com"

\* the extraction loop of process_document over the pages' stripped lengths:
\* text_len is len(text); pages are counted from 1
RECURSIVE ExtractLoop(_, _, _, _, _, _)
ExtractLoop(pages, max_chars, max_pages, page_num, text_len, char_count) ==
    IF page_num > max_pages
    THEN [text_len |-> text_len, char_count |-> char_count, processed_pages |-> page_num - 1]
    ELSE LET page_char_count == pages[page_num]
             remaining_chars == max_chars - char_count
         IN  IF page_char_count > remaining_chars
             THEN [text_len |-> text_len + Max(0, remaining_chars),
                   char_count |-> char_count + remaining_chars,
                   processed_pages |-> page_num]
             ELSE IF char_count + page_char_count >= max_chars
             THEN [text_len |-> text_len + page_char_count + 2,
                   char_count |-> char_count + page_char_count,
                   processed_pages |-> page_num]
             ELSE ExtractLoop(pages, max_chars, max_pages, page_num + 1,
                              text_len + page_char_count + 2, char_count + page_char_count)

\* max_pages is None (all pages) or Some(n)
ExtractPdf(pages, max_chars, max_pages) ==
    LET total_pages == Len(pages)
        limit == IF max_pages = None THEN total_pages ELSE Min(max_pages[1], total_pages)
    IN  [total_pages |-> total_pages] @@ ExtractLoop(pages, max_chars, limit, 1, 0, 0)

\* a branch taken by the file name as it is written
FileBranchCaseSensitive(file_name) ==
    IF StrEndsWith(file_name, ".pdf") THEN "pdf"
    ELSE IF StrEndsWith(file_name, ".jpg") \/ StrEndsWith(file_name, ".jpeg")
            \/ StrEndsWith(file_name, ".png")
    THEN "image"
    ELSE "other"

\* which branch of `if file_name.lower().endswith(...)` a document takes
FileBranch(file_name) ==
    LET lower == StrLower(file_name) IN
    IF StrEndsWith(lower, ".pdf") THEN "pdf"
    ELSE IF StrEndsWith(lower, ".jpg") \/ StrEndsWith(lower, ".jpeg") \/ StrEndsWith(lower, ".png")
    THEN "image"
    ELSE "other"

StorageIO ==
    [cloud : {"ok", "raises", "disabled"}, add_raises : BOOLEAN, copy_raises : BOOLEAN,
     add_again_raises : BOOLEAN]

\* a store_file that files the cloud reference before the upload and leaves it
\* behind when the upload raises and the local copy takes over
StoreFileCloudRefFirst(record, user_id, file_name, file_type, stamp, io) ==
    LET destination_path == "users/" \o user_id \o "/" \o file_type \o "/" \o file_name
        url == "https://storage.googleapis.com/" \o Bucket \o "/" \o destination_path
        cloud_data == [name |-> file_name, type |-> file_type, url |-> url,
                       path |-> destination_path, storage_type |-> "firebase",
                       uploaded_at |-> stamp]
        file_url == BaseUrl \o "/files/" \o user_id \o "/" \o file_type \o "/" \o file_name
        local_data == [name |-> file_name, type |-> file_type,
                       local_path |-> "local_storage/" \o user_id \o "/" \o file_type \o "/" \o file_name,
                       url |-> file_url, storage_type |-> "local", uploaded_at |-> stamp]
        added == IF io.cloud = "disabled" THEN record
                 ELSE AddToUserArray(record, "files", cloud_data, io.add_raises)
        added_again == AddToUserArray(added, "files", local_data, io.add_again_raises)
    IN  IF io.cloud = "ok" /\ added # NoRecord THEN [url |-> url, record |-> added]
        ELSE IF ~io.copy_raises /\ added # NoRecord /\ added_again # NoRecord
        THEN [url |-> file_url, record |-> added_again]
        ELSE [url |-> "", record |-> record]

\* store_file: [url, record], the URL returned and the user's record afterwards.
\* io.cloud: the upload to the bucket succeeds, raises, or USE_FIREBASE_STORAGE is off;
\* io.add_raises / io.add_again_raises: the first / second add_to_user_array raises
\* for a reason of the network; io.copy_raises: the local copy raises
StoreFile(record, user_id, file_name, file_type, stamp, io) ==
    LET destination_path == "users/" \o user_id \o "/" \o file_type \o "/" \o file_name
        url == "https://storage.googleapis.com/" \o Bucket \o "/" \o destination_path
        cloud_data == [name |-> file_name, type |-> file_type, url |-> url,
                       path |-> destination_path, storage_type |-> "firebase",
                       uploaded_at |-> stamp]
        file_url == BaseUrl \o "/files/" \o user_id \o "/" \o file_type \o "/" \o file_name
        local_data == [name |-> file_name, type |-> file_type,
                       local_path |-> "local_storage/" \o user_id \o "/" \o file_type \o "/" \o file_name,
                       url |-> file_url, storage_type |-> "local", uploaded_at |-> stamp]
        added == AddToUserArray(record, "files", cloud_data, io.add_raises)
        added_again == AddToUserArray(record, "files", local_data, io.add_again_raises)
    IN  IF io.cloud = "ok" /\ added # NoRecord THEN [url |-> url, record |-> added]
        ELSE IF ~io.copy_raises /\ added_again # NoRecord
        THEN [url |-> file_url, record |-> added_again]
        ELSE [url |-> "", record |-> record]

CloudWarning ==
    "\n\n:warning: Note: Document couldn't be stored in cloud storage, but text was extracted."
ContentsWarning == "\n:warning: Document text couldn't be saved to database."

\* the reply of process_document once text was extracted
DocumentProcessedReply(file_name, pdf, storage_msg) ==
    ":page_facing_up: Document processed: " \o file_name \o "\n\nExtracted "
    \o IntStr(pdf.char_count) \o " characters of text"
    \o (IF pdf.processed_pages < pdf.total_pages
        THEN " (Note: Only processed " \o IntStr(pdf.processed_pages) \o " of "
             \o IntStr(pdf.total_pages) \o " pages due to size limits)"
        ELSE "")
    \o "." \o storage_msg

NoTextReply(file_name) ==
    ":page_facing_up: Document received: " \o file_name \o "\n\nNo text could be extracted."

DocumentErrorReply(file_name) ==
    ":warning: Error processing document: " \o file_name
    \o "\n\nThere was an issue processing your document. The error has been logged."

\* an OCR helper that hands on what the engine read, available or not
extract_text_from_image_unguarded(ocr, available) == ocr

\* extract_text_from_image: the text the engine reads in the image (ocr), or "" when
\* pytesseract is not installed or the engine raises
extract_text_from_image(ocr, available) == IF available THEN ocr ELSE ""

\* text[:100]
First100(text) == SubSeq(text, 1, Min(100, Len(text)))

\* getFile and the download; then the branch by file name, up to store_file
Download(s) ==
    LET f == req[s]
        file_name == IF f.kind = "photo" THEN "photo_" \o IntStr(now * TickSeconds) \o ".jpg"
                     ELSE f.file_name
        branch == IF f.kind = "photo" THEN "image" ELSE FileBranch(file_name)
        g == [f EXCEPT !.file_name = file_name]
        pdf == ExtractPdf(f.pages, MaxChars, None)
    IN
    /\ f.pc = "dispatch" /\ f.route \in {"document", "photo"}
    /\ \E download_raises \in BOOLEAN, open_raises \in BOOLEAN :
         req' = [req EXCEPT ![s] =
           IF download_raises THEN Raise(f)
           ELSE IF branch = "pdf"
           THEN LET h == Send(g, ":page_facing_up: Processing document: " \o file_name \o "...") IN
                IF open_raises THEN Return(Send(h, DocumentErrorReply(file_name)))
                ELSE IF pdf.text_len = 0 THEN Return(Send(h, NoTextReply(file_name)))
                ELSE [h EXCEPT !.pc = "store_file", !.file_type = "documents", !.pdf = Some(pdf)]
           ELSE IF branch = "image"
           THEN [Send(g, IF f.kind = "photo" THEN ":frame_with_picture: Processing image..."
                         ELSE ":frame_with_picture: Processing image: " \o file_name \o "...")
                   EXCEPT !.pc = "store_file", !.file_type = "images"]
           ELSE [g EXCEPT !.pc = "store_file", !.file_type = "other_files"]]
    /\ UNCHANGED <<db, contents, user_sessions, now, nextReap, nreq, hist, call>>

\* the call of store_file
StoreUpload(s) ==
    LET f == req[s]
        u == f.user_id[1]
    IN
    /\ f.pc = "store_file"
    /\ \E io \in StorageIO :
         LET stored == StoreFile(db[u], u, f.file_name, f.file_type, Stamp(f.id), io) IN
         /\ db' = [db EXCEPT ![u] = stored.record]
         /\ req' = [req EXCEPT ![s] = [f EXCEPT !.pc = "after_store", !.file_url = stored.url,
                                                 !.cloud = io.cloud]]
    /\ UNCHANGED <<contents, user_sessions, now, nextReap, nreq, hist, call>>

\* after store_file: the extracted text is recorded and the reply is sent
FinishUpload(s) ==
    LET f == req[s]
        u == f.user_id[1]
    IN
    /\ f.pc = "after_store"
    /\ \E add_raises \in BOOLEAN, ocr_available \in BOOLEAN :
         IF f.file_type = "documents"
         THEN LET pdf == f.pdf[1]
                  has_url == f.file_url # ""
                  pdf_data == [name |-> f.file_name, text_len |-> pdf.text_len,
                               pages_total |-> pdf.total_pages,
                               pages_processed |-> pdf.processed_pages,
                               char_count |-> pdf.char_count, created_at |-> Stamp(f.id)]
                              @@ (IF has_url THEN [url |-> f.file_url] ELSE <<>>)
                  storage_msg == (IF has_url THEN "" ELSE CloudWarning)
                                 \o (IF add_raises THEN ContentsWarning ELSE "")
              IN  /\ contents' = IF add_raises THEN contents
                                 ELSE [contents EXCEPT ![u] = Append(@, pdf_data)]
                  /\ req' = [req EXCEPT ![s] =
                        Return(Send(f, DocumentProcessedReply(f.file_name, pdf, storage_msg)))]
         ELSE IF f.file_type = "images"
         THEN LET text == extract_text_from_image(f.ocr, ocr_available)
                  g == [f EXCEPT !.ocr_engine = IF ocr_available THEN "ok" ELSE "unavailable"]
                  img_data == [name |-> f.file_name, text |-> text, url |-> f.file_url,
                               created_at |-> Stamp(f.id)]
                  saved == IF f.kind = "photo" THEN ":frame_with_picture: Image saved!"
                           ELSE ":frame_with_picture: Image saved: " \o f.file_name
              IN  IF text = ""
                  THEN /\ contents' = contents
                       /\ req' = [req EXCEPT ![s] = Return(Send(g, saved))]
                  ELSE IF add_raises
                  THEN /\ contents' = contents
                       /\ req' = [req EXCEPT ![s] = Raise(g)]
                  ELSE /\ contents' = [contents EXCEPT ![u] = Append(@, img_data)]
                       /\ req' = [req EXCEPT ![s] =
                             Return(Send(g, saved \o "\n\nText extracted: " \o First100(text) \o "..."))]
         ELSE /\ contents' = contents
              /\ req' = [req EXCEPT ![s] = Return(Send(f, ":file_folder: File saved: " \o f.file_name))]
    /\ UNCHANGED <<db, user_sessions, now, nextReap, nreq, hist, call>>

(***************************************************************************)
(* Time and the periodic session reaper                                    *)
(***************************************************************************)
\* TickSeconds pass; the reaper's sleep does not overrun
Tick(maxTime) ==
    /\ now < maxTime
    /\ now < nextReap
    /\ now' = now + 1
    /\ UNCHANGED <<db, contents, user_sessions, req, nextReap, nreq, hist, call>>

Idle(session) ==
    session # NoSession /\ (now - session.last_interaction[1]) * TickSeconds > IdleThreshold

\* the tail of a session as written to the conversation field
Tail5(messages) == LastK(messages, TailLength)

ReapedIdleKept ==
    /\ now >= nextReap
    /\ db' = [u \in Users |->
                IF Idle(user_sessions[u])
                THEN SetMerge(db[u], [conversation |-> Tail5(user_sessions[u].messages)])
                ELSE db[u]]
    /\ user_sessions' = user_sessions
    /\ nextReap' = now + (ReaperPeriod \div TickSeconds)
    /\ UNCHANGED <<contents, req, now, nreq, hist, call>>

\* one run of the reaper: every idle session is persisted (tail of 5) and removed
Reaper ==
    /\ now >= nextReap
    /\ db' = [u \in Users |->
                IF Idle(user_sessions[u])
                THEN SetMerge(db[u], [conversation |-> Tail5(user_sessions[u].messages)])
                ELSE db[u]]
    /\ user_sessions' = [u \in Users |-> IF Idle(user_sessions[u]) THEN NoSession ELSE user_sessions[u]]
    /\ nextReap' = now + (ReaperPeriod \div TickSeconds)
    /\ UNCHANGED <<contents, req, now, nreq, hist, call>>

(***************************************************************************)
(* Inputs                                                                  *)
(***************************************************************************)
WebhookTexts ==
    {"/start", "/HELP me", "/tasks", "/notes", "/files", "/unknown",
     "Remind me to call mom tomorrow at 5pm", "add task: pay rent on friday at 5 pm",
     "save this note", "hello there",
     "/tasks remind me to buy milk", " /tasks remind me to buy milk", "/Notes save this note"}

\* an inbound update; route is where telegram_webhook takes its text
Payload(kind, user, text) ==
    [kind |-> kind, user |-> user, text |-> text,
     route |-> IF kind = "text" THEN TextRoute(text) ELSE kind,
     file_name |-> "", pages |-> <<>>, ocr |-> ""]

\* a document with its file name, the lengths of its pages' stripped texts and the
\* text an OCR run finds in it; a photo has no file name
FilePayload(kind, user, file_name, pages, ocr) ==
    [Payload(kind, user, "") EXCEPT !.file_name = file_name, !.pages = pages, !.ocr = ocr]

PdfInputs == {<<>>, <<0>>, <<120>>, <<30000, 30000>>}

Payloads ==
    {Payload("bad_json", "u1", ""), Payload("no_message", "u1", "")}
    \cup {Payload(k, u, "") : k \in {"no_from", "other"}, u \in Users}
    \cup {Payload("text", u, t) : u \in Users, t \in WebhookTexts}
    \cup {FilePayload("document", u, "report.pdf", pages, "") : u \in Users, pages \in PdfInputs}
    \cup {FilePayload("document", u, n, <<>>, ocr) :
             u \in Users, n \in {"scan.PNG", "notes.txt"}, ocr \in {"", "total 42"}}
    \cup {FilePayload("photo", u, "", <<>>, ocr) : u \in Users, ocr \in {"", "total 42"}}

SessionPayloads == {Payload("text", "u1", "hello there")}

ReaperPayloads == {Payload("text", u, t) : u \in Users, t \in {"hello there"}}

\* one user's texts for requests that overlap: a listing, a note, a chat message
ConcPayloads == {Payload("text", "u1", t) : t \in {"/tasks", "save this note", "hello there"}}

TextFragments ==
    <<"Remind me to call mom", " tomorrow at 5pm", " tomorrow at 5 pm", " on friday 17:30",
      " 12/5 ", "hello there", "save this note", "ADD TASK: buy milk", "Please remember to ",
      "don't forget to", " Remember that ", "create task">>

RECURSIVE TextsOf(_)
\* the texts made of at most n fragments
TextsOf(n) ==
    IF n = 0 THEN {""}
    ELSE TextsOf(n - 1)
         \cup {t \o TextFragments[i] : t \in TextsOf(n - 1), i \in 1..Len(TextFragments)}

Texts == TextsOf(MaxFrags)

NoCall == [fn |-> "none", text |-> "", out |-> None]

(***************************************************************************)
(* Specifications                                                          *)
(***************************************************************************)
InitProgram ==
    /\ contents = [u \in Users |-> <<>>]
    /\ user_sessions = [u \in Users |-> NoSession]
    /\ req = [s \in Slots |-> IdleFrame]
    /\ now = 0
    /\ nextReap = ReaperPeriod \div TickSeconds
    /\ nreq = 0
    /\ hist = [u \in Users |-> <<>>]

\* a record left by an earlier run: one task, one note and one file reference
StoredData ==
    [DefaultData(<<0, 0>>) EXCEPT
       !.tasks = <<TaskData(extract_task_info("add task: pay rent on friday at 5 pm"), <<0, 0>>)>>,
       !.notes = <<[content |-> "save this note", timestamp |-> <<0, 0>>]>>,
       !.files = StoreFile(DefaultData(<<0, 0>>), "u1", "old.pdf", "documents", <<0, 0>>,
                           [cloud |-> "ok", add_raises |-> FALSE, copy_raises |-> FALSE,
                            add_again_raises |-> FALSE]).record.files]

\* the process starts; a user may have a record from an earlier run
Init ==
    /\ InitProgram
    /\ db \in [Users -> {NoRecord, DefaultData(<<0, 0>>), StoredData}]
    /\ call = NoCall

Next ==
    \/ Receive(Payloads, MaxReqs, 1)
    \/ \E s \in Slots : CmdStatic(s)
    \/ \E s \in Slots : CmdListRead(s)
    \/ \E s \in Slots : CmdListSet(s)
    \/ \E s \in Slots : CreateTask(s)
    \/ \E s \in Slots : CreateNote(s)
    \/ \E s \in Slots : ConversationStart(s)
    \/ \E s \in Slots : ConversationEnd(s)
    \/ \E s \in Slots : Download(s)
    \/ \E s \in Slots : StoreUpload(s)
    \/ \E s \in Slots : FinishUpload(s)

\* the webhook handler on every kind of update, one request after the other
Spec == Init /\ [][Next]_vars

\* the process starts and no user has a record yet
InitSession ==
    /\ InitProgram
    /\ db = [u \in Users |-> NoRecord]
    /\ call = NoCall

\* conversation turns only, one after the other
NextSession ==
    \/ Receive(SessionPayloads, MaxTurns, 1)
    \/ \E s \in Slots : ConversationStart(s)
    \/ \E s \in Slots : ConversationEnd(s)
    \/ Tick(SessionMaxTime)
    \/ Reaper

SpecSession == InitSession /\ [][NextSession]_vars

\* conversation turns and enough time for sessions to go idle
NextReaper ==
    \/ Receive(ReaperPayloads, ReaperMaxReqs, 1)
    \/ \E s \in Slots : ConversationStart(s)
    \/ \E s \in Slots : ConversationEnd(s)
    \/ Tick(ReaperMaxTime)
    \/ Reaper

SpecReaper == InitSession /\ [][NextReaper]_vars

\* direct calls of the two pure functions on every text of Texts
InitText ==
    /\ InitProgram
    /\ db = [u \in Users |-> NoRecord]
    /\ \E t \in Texts : call = [fn |-> "none", text |-> t, out |-> None]

CallAnalyzeIntent ==
    /\ call' = [call EXCEPT !.fn = "analyze_intent", !.out = analyze_intent(call.text)]
    /\ UNCHANGED <<db, contents, user_sessions, req, now, nextReap, nreq, hist>>

CallExtractTaskInfo ==
    /\ call' = [call EXCEPT !.fn = "extract_task_info", !.out = extract_task_info(call.text)]
    /\ UNCHANGED <<db, contents, user_sessions, req, now, nextReap, nreq, hist>>

NextText == CallAnalyzeIntent \/ CallExtractTaskInfo

SpecText == InitText /\ [][NextText]_vars

\* requests of one user, up to two of them in flight at a time: the event loop runs
\* one handler up to its next await, then any handler that can go on
NextConc ==
    \/ Receive(ConcPayloads, ConcMaxReqs, 2)
    \/ \E s \in Slots : CmdListRead(s)
    \/ \E s \in Slots : CmdListSet(s)
    \/ \E s \in Slots : CreateNote(s)
    \/ \E s \in Slots : ConversationStart(s)
    \/ \E s \in Slots : ConversationEnd(s)

SpecConc == InitSession /\ [][NextConc]_vars

\* the same, with the event loop never idle while a handler can go on
SpecConcFair == SpecConc /\ WF_vars(NextConc)

(***************************************************************************)
(* The introspection endpoints, on two configurations side by side         *)
(***************************************************************************)
SecretNames == {"GROQ_API_KEY", "TELEGRAM_BOT_TOKEN", "FIREBASE_SERVICE_ACCOUNT"}

\* os.getenv(name) is None (unset) or Some(value)
EnvValues == {None, Some(""), Some("k-1"), Some("k-2")}

\* the environments of the process: the three secrets and WEBHOOK_URL vary, the
\* other variables debug_env reads are unset
Envs ==
    [GROQ_API_KEY : EnvValues, TELEGRAM_BOT_TOKEN : EnvValues,
     FIREBASE_SERVICE_ACCOUNT : EnvValues,
     WEBHOOK_URL : {None, Some("https://telemind-bot.onrender.com/webhook")}]

\* bool(os.getenv(name))
Bool(value) == value # None /\ value[1] # ""

\* os.getenv(name, default)
GetEnvDefault(value, default) == IF value = None THEN default ELSE value[1]

\* GET /debug
debug_info(env, sessions, stamp) ==
    [env |-> [GROQ_API_KEY |-> Bool(env.GROQ_API_KEY),
              TELEGRAM_BOT_TOKEN |-> Bool(env.TELEGRAM_BOT_TOKEN),
              FIREBASE_SERVICE_ACCOUNT |-> Bool(env.FIREBASE_SERVICE_ACCOUNT)],
     timestamp |-> stamp,
     sessions |-> Cardinality({u \in DOMAIN sessions : sessions[u] # NoSession})]

\* a report that shows the bot token itself
debug_env_with_token(env) ==
    [WEBHOOK_URL |-> env.WEBHOOK_URL,
     WEBHOOK_URL_configured |-> Bool(env.WEBHOOK_URL),
     TELEGRAM_BOT_TOKEN_configured |-> env.TELEGRAM_BOT_TOKEN,
     GROQ_API_KEY_configured |-> Bool(env.GROQ_API_KEY),
     FIREBASE_SERVICE_ACCOUNT_configured |-> Bool(env.FIREBASE_SERVICE_ACCOUNT),
     FIREBASE_STORAGE_BUCKET |-> None,
     USE_FIREBASE_STORAGE |-> GetEnvDefault(None, "true"),
     LOCAL_STORAGE_DIR |-> GetEnvDefault(None, "local_storage"),
     BASE_URL |-> GetEnvDefault(None, BaseUrl)]

\* GET /debug/env
debug_env(env) ==
    [WEBHOOK_URL |-> env.WEBHOOK_URL,
     WEBHOOK_URL_configured |-> Bool(env.WEBHOOK_URL),
     TELEGRAM_BOT_TOKEN_configured |-> Bool(env.TELEGRAM_BOT_TOKEN),
     GROQ_API_KEY_configured |-> Bool(env.GROQ_API_KEY),
     FIREBASE_SERVICE_ACCOUNT_configured |-> Bool(env.FIREBASE_SERVICE_ACCOUNT),
     FIREBASE_STORAGE_BUCKET |-> None,
     USE_FIREBASE_STORAGE |-> GetEnvDefault(None, "true"),
     LOCAL_STORAGE_DIR |-> GetEnvDefault(None, "local_storage"),
     BASE_URL |-> GetEnvDefault(None, BaseUrl)]

\* two processes, each with its environment; no endpoint called yet
InitDebug ==
    /\ InitProgram
    /\ db = [u \in Users |-> NoRecord]
    /\ \E a \in Envs, b \in Envs :
          call = [fn |-> "none", text |-> "", out |-> None, env |-> <<a, b>>]

CallDebugInfo ==
    /\ call' = [call EXCEPT !.fn = "debug_info",
                            !.out = <<debug_info(call.env[1], user_sessions, Stamp(1)),
                                      debug_info(call.env[2], user_sessions, Stamp(2))>>]
    /\ UNCHANGED <<db, contents, user_sessions, req, now, nextReap, nreq, hist>>

CallDebugEnv ==
    /\ call' = [call EXCEPT !.fn = "debug_env",
                            !.out = <<debug_env(call.env[1]), debug_env(call.env[2])>>]
    /\ UNCHANGED <<db, contents, user_sessions, req, now, nextReap, nreq, hist>>

NextDebug == CallDebugInfo \/ CallDebugEnv

SpecDebug == InitDebug /\ [][NextDebug]_vars

(***************************************************************************)
(* Properties                                                              *)
(***************************************************************************)
\* no request of user u is being handled
Quiescent(u) == \A s \in Slots : ~(Busy(s) /\ req[s].user_id = Some(u))

HasSession(u) == user_sessions[u] # NoSession

\* phrase p occurs in s at some position
Occurs(p, s) == \E k \in 1..Len(s) : MatchesAt(s, p, k)

HasTaskPhrase(text) == \E i \in 1..Len(TaskPhrases) : Occurs(TaskPhrases[i], StrLower(text))
HasNotePhrase(text) == \E i \in 1..Len(NotePhrases) : Occurs(NotePhrases[i], StrLower(text))

\* C1: every request that has been answered was answered with {"ok": true}, whatever
\* its payload and whichever step failed; no exception reached the transport.
C1_AlwaysAcknowledged ==
    \A s \in Slots :
        /\ req[s].resp \in {"none", "ack"}
        /\ req[s].pc = "done" => req[s].resp = "ack"

\* a document upload that raised inside the handler and was still acknowledged
C1_Witness ==
    \E s \in Slots :
        req[s].pc = "done" /\ req[s].raised /\ req[s].kind = "document" /\ req[s].resp = "ack"

C3_CapBetweenTurns ==
    \A u \in Users :
        (HasSession(u) /\ Quiescent(u)) => Len(user_sessions[u].messages) <= ContextWindow

\* C4: a step of process_conversation that creates the session seeds its buffer with
\* the (at most 5) messages of the record's conversation field, before the new text
\* is appended.
C4_Rehydrated ==
    [][\A s \in Slots :
          (req[s].pc = "dispatch" /\ req'[s].pc = "completion" /\ req'[s].created)
              => req'[s].seeded = Tail5(GetList(db[req[s].user_id[1]], "conversation"))]_vars

\* C5: between turns, the record's conversation field holds the last 5 messages of
\* the user's buffer.
C5_TailPersisted ==
    \A u \in Users :
        (HasSession(u) /\ Quiescent(u))
            => GetList(db[u], "conversation") = Tail5(user_sessions[u].messages)

\* C6: a run of the reaper removes every session idle for more than 1800 seconds and
\* leaves the tail of 5 of its messages in the record's conversation field; with a
\* run every 600 seconds no session is ever idle for more than 2400 seconds.
C6_ReaperEvicts ==
    /\ [](\A u \in Users :
            HasSession(u) =>
                (now - user_sessions[u].last_interaction[1]) * TickSeconds
                    <= IdleThreshold + ReaperPeriod)
    /\ [][nextReap' # nextReap =>
            \A u \in Users :
                Idle(user_sessions[u]) =>
                    /\ user_sessions'[u] = NoSession
                    /\ GetList(db'[u], "conversation") = Tail5(user_sessions[u].messages)
                    /\ Len(GetList(db'[u], "conversation")) <= TailLength]_vars

\* a session of more than 5 messages was evicted and its tail is in the record
C6_Witness ==
    \E u \in Users :
        /\ ~HasSession(u)
        /\ Len(hist[u]) > TailLength
        /\ GetList(db[u], "conversation") = Tail5(hist[u])

\* C7: analyze_intent yields task_create when a task phrase occurs in the lower-cased
\* text, else note_create when a note phrase occurs, else general_chat.
C7_IntentPrecedence ==
    call.fn = "analyze_intent" =>
        call.out = [intent |-> IF HasTaskPhrase(call.text) THEN "task_create"
                               ELSE IF HasNotePhrase(call.text) THEN "note_create"
                               ELSE "general_chat"]

\* a text with a task phrase and a note phrase, classified task_create
C7_Witness ==
    /\ call.fn = "analyze_intent"
    /\ HasTaskPhrase(call.text) /\ HasNotePhrase(call.text)
    /\ call.out.intent = "task_create"

C8Text == "Remind me to call mom tomorrow at 5pm"

\* C8: handling "Remind me to call mom tomorrow at 5pm" appends exactly one Task, with
\* due_date "tomorrow", due_time "5pm", priority "medium" and completed false, and the
\* reply contains "Task added".
C8_TaskFromReminder ==
    \A s \in Slots :
        (req[s].pc = "done" /\ req[s].text = C8Text /\ ~req[s].raised) =>
            LET tasks == GetList(db[req[s].user_id[1]], "tasks")
                new == {i \in 1..Len(tasks) : tasks[i].created_at[2] = req[s].id}
            IN  /\ Cardinality(new) = 1
                /\ \A i \in new :
                     /\ tasks[i].due_date = Some("tomorrow")
                     /\ tasks[i].due_time = Some("5pm")
                     /\ tasks[i].priority = "medium"
                     /\ tasks[i].completed = FALSE
                /\ \E k \in 1..Len(req[s].sent) : StrIn("Task added", req[s].sent[k])

\* C9: extract_task_info returns exactly {is_task: false} for a text with no task
\* phrase and is_task true for a text with one.
C9_IsTaskIffPhrase ==
    call.fn = "extract_task_info" =>
        IF HasTaskPhrase(call.text) THEN call.out.is_task = TRUE
        ELSE call.out = [is_task |-> FALSE]

\* a non-empty text with no task phrase, refused
C9_Witness ==
    /\ call.fn = "extract_task_info"
    /\ call.text # "" /\ ~HasTaskPhrase(call.text) /\ HasNotePhrase(call.text)
    /\ call.out = [is_task |-> FALSE]

CommandFrame(f) ==
    f.pc \notin {"idle", "done"} /\ f.route \in StaticCommands \cup ListCommands

SplitFirst(text) == FirstToken(LStrip(text))

\* request f left no task and no note in its user's record and no trace in the
\* session map
LeftNoItem(f) ==
    LET u == f.user_id[1]
        tasks == GetList(db[u], "tasks")
        notes == GetList(db[u], "notes")
    IN  /\ \A i \in 1..Len(tasks) : tasks[i].created_at[2] # f.id
        /\ \A i \in 1..Len(notes) : notes[i].timestamp[2] # f.id
        /\ \/ user_sessions[u] = NoSession
           \/ /\ user_sessions[u].oid # f.id
              /\ \A i \in 1..Len(user_sessions[u].messages) :
                    user_sessions[u].messages[i].timestamp[2] # f.id

\* C11 as stated: a text whose first whitespace-delimited token is a command is taken
\* to that command's handler and leaves no task, no note and no session message.
C11_FirstTokenIsCommand ==
    \A s \in Slots :
        (/\ req[s].pc # "idle" /\ req[s].kind = "text" /\ req[s].user_id # None
         /\ LStrip(req[s].text) # ""
         /\ StrLower(SplitFirst(req[s].text)) \in StaticCommands \cup ListCommands)
            => (req[s].route = StrLower(SplitFirst(req[s].text)) /\ LeftNoItem(req[s]))

\* C11 as amended: a text that starts with "/" and whose first token is a command,
\* whatever its case, is taken to that command's handler, and the request leaves no
\* task, no note and no session message even when the rest of the text holds a
\* trigger phrase.
C11_CommandsBypassIntent ==
    \A s \in Slots :
        (/\ req[s].pc # "idle" /\ req[s].kind = "text" /\ req[s].user_id # None
         /\ StrStartsWith(req[s].text, "/")
         /\ StrLower(FirstToken(req[s].text)) \in StaticCommands \cup ListCommands)
            => (req[s].route = StrLower(FirstToken(req[s].text)) /\ LeftNoItem(req[s]))

\* a command followed by a task phrase was answered with the listing of a user who has
\* a task stored
C11_Witness ==
    \E s \in Slots :
        /\ req[s].pc = "done" /\ ~req[s].raised
        /\ req[s].text = "/tasks remind me to buy milk"
        /\ HasTaskPhrase(req[s].text)
        /\ db[req[s].user_id[1]] = StoredData
        /\ req[s].sent = <<ListReply("/tasks", StoredData)>>

\* request f appended a file reference to its user's record
FileRefAppended(f) ==
    LET files == GetList(db[f.user_id[1]], "files") IN
    \E i \in 1..Len(files) : files[i].uploaded_at[2] = f.id /\ files[i].name = f.file_name

RepliedWith(f, text) == \E k \in 1..Len(f.sent) : f.sent[k] = text

\* C12: a .pdf document none of whose pages holds text is answered with "No text could
\* be extracted" and a file reference for it is appended to the user's files.
C12_EmptyPdfStillFiled ==
    \A s \in Slots :
        (/\ req[s].pc = "done" /\ req[s].kind = "document" /\ ~req[s].raised
         /\ FileBranch(req[s].file_name) = "pdf"
         /\ \A i \in 1..Len(req[s].pages) : req[s].pages[i] = 0
         /\ db[req[s].user_id[1]] # NoRecord
         /\ ~RepliedWith(req[s], DocumentErrorReply(req[s].file_name)))
            => /\ RepliedWith(req[s], NoTextReply(req[s].file_name))
               /\ FileRefAppended(req[s])

RECURSIVE SumSeq(_)
SumSeq(seq) == IF seq = <<>> THEN 0 ELSE Head(seq) + SumSeq(Tail(seq))

\* C13: a document whose pages hold more than max_chars characters together is
\* extracted with pages_processed < pages_total and a text of exactly max_chars
\* characters.
C13_PdfBudget ==
    \A s \in Slots :
        (req[s].pdf # None /\ SumSeq(req[s].pages) > MaxChars)
            => /\ req[s].pdf[1].processed_pages < req[s].pdf[1].total_pages
               /\ req[s].pdf[1].text_len = MaxChars

\* C14: a request with a chat id and a text, document or photo that has returned sent
\* at least one message, and when an exception reached the except clause of the
\* handler the last message sent is the apology.
C14_BestEffortReply ==
    \A s \in Slots :
        (/\ req[s].pc = "done" /\ req[s].chat_id # None
         /\ req[s].kind \in {"text", "document", "photo", "no_from"})
            => /\ Len(req[s].sent) >= 1
               /\ req[s].raised => req[s].sent[Len(req[s].sent)] = WebhookApology

\* a photo whose text could not be recorded: the progress message, then the apology
C14_Witness ==
    \E s \in Slots :
        /\ req[s].pc = "done" /\ req[s].kind = "photo" /\ req[s].raised
        /\ req[s].sent = <<":frame_with_picture: Processing image...", WebhookApology>>

\* C15: when the upload to the bucket raised, the local copy was made and nothing else
\* failed, a file reference is appended and a message sent to the user warns that the
\* file could not be stored in cloud storage.
C15_FallbackWarns ==
    \A s \in Slots :
        (/\ req[s].pc = "done" /\ ~req[s].raised
         /\ req[s].cloud = "raises" /\ req[s].file_url # "")
            => /\ FileRefAppended(req[s])
               /\ \E k \in 1..Len(req[s].sent) :
                     StrIn("couldn't be stored in cloud storage", req[s].sent[k])

\* the two environments differ at most in the values of secrets that are non-empty
\* in both
SameButSecretValues(a, b) ==
    /\ a.WEBHOOK_URL = b.WEBHOOK_URL
    /\ \A n \in SecretNames : a[n] = b[n] \/ (Bool(a[n]) /\ Bool(b[n]))

\* C16: for two configurations that differ only in the non-empty values of the three
\* secrets, /debug answers the same apart from the timestamp and /debug/env answers
\* the same.
C16_SecretsAsPresenceOnly ==
    SameButSecretValues(call.env[1], call.env[2]) =>
        /\ call.fn = "debug_info" =>
              /\ call.out[1].env = call.out[2].env
              /\ call.out[1].sessions = call.out[2].sessions
              /\ DOMAIN call.out[1] = {"env", "timestamp", "sessions"}
        /\ call.fn = "debug_env" => call.out[1] = call.out[2]

\* /debug/env called under two configurations whose three secrets all differ
C16_Witness ==
    /\ call.fn = "debug_env"
    /\ SameButSecretValues(call.env[1], call.env[2])
    /\ \A n \in SecretNames : call.env[1][n] # call.env[2][n]
    /\ call.out[1] = call.out[2]
    /\ call.out[1].TELEGRAM_BOT_TOKEN_configured = TRUE

\* C17: a note, task or file reference that is in a user's record is in the record
\* after every step, whatever the interleaving of the user's requests.
C17_ItemsStay ==
    [][\A u \in Users : \A field \in {"notes", "tasks", "files"} :
          \A i \in 1..Len(GetList(db[u], field)) :
              InSeq(GetList(db[u], field)[i], GetList(db'[u], field))]_vars

\* request f stored the task or note it was sent to create
ItemStored(f) ==
    LET tasks == GetList(db[f.user_id[1]], "tasks")
        notes == GetList(db[f.user_id[1]], "notes")
    IN  IF f.route = "task_create"
        THEN \E i \in 1..Len(tasks) : tasks[i].created_at[2] = f.id
        ELSE \E i \in 1..Len(notes) : notes[i].timestamp[2] = f.id /\ notes[i].content = f.text

\* C18: a task-creating or note-creating message handled for a user who has no record
\* leaves the item stored and is answered with the acknowledgment, not an apology.
C18_WritesAreUpserts ==
    [][\A s \in Slots :
          (/\ req[s].pc = "dispatch" /\ req[s].route \in {"task_create", "note_create"}
           /\ db[req[s].user_id[1]] = NoRecord
           /\ req'[s].pc = "done" /\ req'[s].id = req[s].id)
              => /\ ItemStored(req[s])'
                 /\ ~req'[s].raised
                 /\ ~RepliedWith(req'[s], WebhookApology)]_vars

\* a message appended to u's session is missing from the buffer though the window did
\* not push it out
LostUpdate(u) ==
    /\ HasSession(u)
    /\ LET messages == user_sessions[u].messages IN
       \/ messages # LastK(hist[u], Len(messages))
       \/ Len(messages) < Min(Len(hist[u]), ContextWindow)

C20Apology ==
    "I apologize, but I encountered an issue processing your request. Please try again."

\* C20: a turn whose completion call fails ends with the fixed apology as its only
\* reply and without an exception in the handler, and leaves the session as the turn's
\* first half made it: the user's message last in the buffer, no assistant message
\* added, last_interaction set by this turn.
C20_FailureKeepsUserMessage ==
    [][\A s \in Slots :
          (/\ req[s].pc = "completion" /\ req'[s].pc = "done"
           /\ \A r \in LLMReplies : ~RepliedWith(req'[s], r))
              => LET u == req[s].user_id[1]
                     messages == user_sessions'[u].messages
                 IN  /\ req'[s].sent = <<C20Apology>>
                     /\ ~req'[s].raised /\ req'[s].resp = "ack"
                     /\ user_sessions' = user_sessions
                     /\ messages[Len(messages)].role = "user"
                     /\ messages[Len(messages)].content = req[s].text
                     /\ messages[Len(messages)].timestamp[2] = req[s].id
                     /\ user_sessions'[u].last_interaction[2] = req[s].id]_vars

\* a failed turn after an answered one: three messages, the last one the user's
C20_Witness ==
    \E s \in Slots :
        /\ req[s].pc = "done" /\ req[s].sent = <<C20Apology>>
        /\ LET session == user_sessions[req[s].user_id[1]] IN
           /\ session # NoSession
           /\ Len(session.messages) = 3
           /\ session.messages[2].role = "assistant"
           /\ session.messages[3].role = "user"
           /\ session.messages[3].timestamp[2] = req[s].id
           /\ session.last_interaction[2] = req[s].id

\* C21: the request a turn builds is one system message, then the messages of the
\* session buffer as the turn left it, in order and with role and content only; its
\* last element is the turn's user message and it holds at most 11 messages.
C21_LLMRequestShape ==
    [][\A s \in Slots :
          (req[s].pc = "dispatch" /\ req'[s].pc = "completion") =>
              LET request == req'[s].llm_request
                  messages == user_sessions'[req[s].user_id[1]].messages
              IN  /\ Len(request) = Len(messages) + 1
                  /\ Len(request) <= ContextWindow + 1
                  /\ request[1].role = "system"
                  /\ \A i \in 1..Len(messages) :
                        request[i + 1] = [role |-> messages[i].role, content |-> messages[i].content]
                  /\ \A i \in 2..Len(request) : request[i].role # "system"
                  /\ request[Len(request)] = [role |-> "user", content |-> req[s].text]]_vars

\* a request of 11 messages built when more than 10 had been appended to the session
C21_Witness ==
    \E s \in Slots :
        /\ req[s].pc = "completion"
        /\ Len(req[s].llm_request) = ContextWindow + 1
        /\ Len(hist[req[s].user_id[1]]) > ContextWindow
        /\ req[s].llm_request[2].role = "assistant"

\* C22: a note_create text is handled in one step that appends exactly one note, with
\* the whole text as content and the time of the request as timestamp, sends the fixed
\* acknowledgment and leaves the session map alone (a write that raises on a record
\* that exists, a failure of the store itself, is left out).
C22_NoteAppended ==
    [][\A s \in Slots :
          (/\ req[s].pc = "dispatch" /\ req[s].route = "note_create"
           /\ req'[s].pc = "done" /\ req'[s].id = req[s].id
           /\ ~(req'[s].raised /\ db[req[s].user_id[1]] # NoRecord))
              => LET u == req[s].user_id[1] IN
                 /\ GetList(db'[u], "notes")
                       = Append(GetList(db[u], "notes"),
                                [content |-> req[s].text, timestamp |-> <<now, req[s].id>>])
                 /\ req'[s].sent = <<":memo: Note saved!">>
                 /\ user_sessions' = user_sessions]_vars

\* C23: a document whose pages hold more text than the character budget lets in is
\* answered with the notice that only pages_processed of pages_total were processed.
C23_PartialSurfaced ==
    \A s \in Slots :
        (/\ req[s].pc = "done" /\ ~req[s].raised
         /\ req[s].pdf # None /\ SumSeq(req[s].pages) > MaxChars)
            => \E k \in 1..Len(req[s].sent) :
                  StrIn("Only processed " \o IntStr(req[s].pdf[1].processed_pages) \o " of "
                        \o IntStr(req[s].pdf[1].total_pages) \o " pages", req[s].sent[k])

\* the text that follows position k + Len(p) - 1, stripped
After(text, p, k) == StrStrip(SubSeq(text, k + Len(p), Len(text)))

\* C24 as stated: the description of a text with a trigger phrase is the text with a
\* trigger phrase, and the whitespace around it, taken from its front, and priority
\* is "medium".
C24_PhraseStrippedFromFront ==
    (call.fn = "extract_task_info" /\ HasTaskPhrase(call.text)) =>
        /\ call.out.priority = "medium"
        /\ \E i \in 1..Len(TaskPrefixes) :
              /\ StrStartsWith(StrLower(LStrip(call.text)), TaskPrefixes[i])
              /\ call.out.task = After(LStrip(call.text), TaskPrefixes[i], 1)

\* C24 as amended: the description of a text with a trigger phrase is the text that
\* follows the first occurrence, anywhere in the text, of the first phrase of the list
\* (remind me to, add task:, add task, create task:, create task, remember to, don't
\* forget to) that occurs in it, stripped of surrounding whitespace and in its
\* original case; what stands before the phrase is dropped; priority is "medium".
C24_CutAfterFirstListedPhrase ==
    (call.fn = "extract_task_info" /\ HasTaskPhrase(call.text)) =>
        /\ call.out.priority = "medium"
        /\ \E i \in 1..Len(TaskPrefixes) : \E k \in 1..Len(call.text) :
              /\ MatchesAt(StrLower(call.text), TaskPrefixes[i], k)
              /\ \A j \in 1..(k - 1) : ~MatchesAt(StrLower(call.text), TaskPrefixes[i], j)
              /\ \A h \in 1..(i - 1) : ~Occurs(TaskPrefixes[h], StrLower(call.text))
              /\ call.out.task = After(call.text, TaskPrefixes[i], k)

\* two phrases, the one listed first standing second: what is before it is dropped
C24_Witness ==
    /\ call.fn = "extract_task_info"
    /\ call.text = "Please remember to Remind me to call mom"
    /\ call.out.task = "call mom"

\* request f wrote a record of extracted text
TextRecorded(f) ==
    \E i \in 1..Len(contents[f.user_id[1]]) : contents[f.user_id[1]][i].created_at[2] = f.id

\* the first message request f sent, "" when it sent none
FirstSent(f) == IF f.sent = <<>> THEN "" ELSE f.sent[1]

EndsIn(file_name, extensions) ==
    \E e \in extensions : StrEndsWith(StrLower(file_name), e)

\* C25: a downloaded document takes exactly one branch, by its lower-cased name: .pdf
\* the PDF pipeline, .jpg, .jpeg or .png the image pipeline, any other name opaque
\* storage as other_files with nothing sent but "File saved" and no record of
\* extracted text.
C25_DispatchByName ==
    \A s \in Slots :
        (/\ req[s].kind = "document" /\ ~req[s].raised
         /\ req[s].pc \in {"store_file", "after_store", "done"})
            => LET f == req[s] IN
               IF EndsIn(f.file_name, {".pdf"})
               THEN /\ FirstSent(f) = ":page_facing_up: Processing document: " \o f.file_name \o "..."
                    /\ f.file_type = (IF f.pdf = None THEN "" ELSE "documents")
               ELSE IF EndsIn(f.file_name, {".jpg", ".jpeg", ".png"})
               THEN /\ FirstSent(f) = ":frame_with_picture: Processing image: " \o f.file_name \o "..."
                    /\ f.file_type = "images" /\ f.pdf = None
                    /\ TextRecorded(f) => f.ocr # ""
               ELSE /\ f.file_type = "other_files" /\ f.pdf = None
                    /\ ~TextRecorded(f)
                    /\ f.sent = IF f.pc = "done"
                                THEN <<":file_folder: File saved: " \o f.file_name>> ELSE <<>>

\* an image named in upper case went through OCR and its text was recorded
C25_Witness ==
    \E s \in Slots :
        /\ req[s].pc = "done" /\ req[s].kind = "document" /\ req[s].file_name = "scan.PNG"
        /\ req[s].file_type = "images"
        /\ \E i \in 1..Len(contents[req[s].user_id[1]]) :
              /\ contents[req[s].user_id[1]][i].created_at[2] = req[s].id
              /\ contents[req[s].user_id[1]][i].text = "total 42"

\* C26: an image or photo whose OCR engine was unavailable or raised is handled to the
\* end without an exception in the handler: the plain "Image saved" reply is the last
\* message sent, no record of extracted text is written, and the file reference that
\* store_file appended is in the user's record.
C26_OcrDegradesSilently ==
    \A s \in Slots :
        (req[s].pc = "done" /\ req[s].ocr_engine = "unavailable")
            => LET f == req[s] IN
               /\ ~f.raised /\ f.resp = "ack"
               /\ f.sent[Len(f.sent)] = (IF f.kind = "photo" THEN ":frame_with_picture: Image saved!"
                                         ELSE ":frame_with_picture: Image saved: " \o f.file_name)
               /\ ~TextRecorded(f)
               /\ f.file_url # "" => FileRefAppended(f)

\* a photo with text in it, handled while the engine was unavailable, the file stored
C26_Witness ==
    \E s \in Slots :
        /\ req[s].pc = "done" /\ req[s].kind = "photo" /\ req[s].ocr_engine = "unavailable"
        /\ req[s].ocr = "total 42"
        /\ req[s].file_url # "" /\ FileRefAppended(req[s])
        /\ req[s].sent = <<":frame_with_picture: Processing image...", ":frame_with_picture: Image saved!">>

\* C27: a text that analyze_intent classifies task_create is a task for
\* extract_task_info, so the handler takes it to the task branch and never falls
\* through to the conversation.
C27_NoFallThrough ==
    (call.fn = "extract_task_info" /\ analyze_intent(call.text).intent = "task_create") =>
        /\ call.out.is_task = TRUE
        /\ DOMAIN call.out = {"is_task", "task", "due_date", "due_time", "priority"}
        /\ TextRoute(call.text) # "conversation"

\* a text with a task phrase other than the first of the list, and a note phrase
C27_Witness ==
    /\ call.fn = "extract_task_info"
    /\ call.text = "don't forget tosave this note"
    /\ analyze_intent(call.text).intent = "task_create"
    /\ call.out.is_task = TRUE
    /\ TextRoute(call.text) = "task_create"

(***************************************************************************)
(* firebase_storage_helper: files with metadata, and the pass that adds    *)
(* metadata to the files stored without it                                 *)
(***************************************************************************)
MaxFiles == 3           \* files stored in SpecEnhance
PreviewChars == 500     \* max_chars of the content preview

\* extract_text_preview: the text of the pages, cut at max_chars with an ellipsis
extract_text_preview(text, max_chars) ==
    IF Len(text) > max_chars THEN SubSeq(text, 1, max_chars) \o "..." ELSE text

\* extract_pdf_metadata, as a list of key and value: the page count of a readable
\* file without document information
extract_pdf_metadata(text) == << <<"pages", "1">> >>

\* create_file_hash: the digest stands for the content it was computed from
create_file_hash(text) == "md5(" \o text \o ")"

\* dict.update: d with the keys of data set
DictUpdate(d, data) ==
    [k \in DOMAIN d \cup DOMAIN data |-> IF k \in DOMAIN data THEN data[k] ELSE d[k]]

\* upload_file: the user's record afterwards; text is what the file holds,
\* raises: the upload or the update raises for a reason of the network
upload_file(record, user_id, file_name, file_type, extract_metadata, text, stamp, raises) ==
    LET destination_path == "users/" \o user_id \o "/" \o file_type \o "/" \o file_name
        url == "https://storage.googleapis.com/" \o Bucket \o "/" \o destination_path
        metadata == IF extract_metadata /\ file_type = "pdf" THEN extract_pdf_metadata(text)
                    ELSE IF extract_metadata /\ file_type \in {"jpg", "jpeg", "png"}
                    THEN << <<"format", file_type>> >>
                    ELSE <<>>
        content_preview == IF extract_metadata /\ file_type = "pdf"
                           THEN extract_text_preview(text, PreviewChars) ELSE ""
        file_data == [name |-> file_name, type |-> file_type, url |-> url,
                      path |-> destination_path, storage_type |-> "firebase",
                      uploaded_at |-> stamp, timestamp |-> IntStr(stamp[1]),
                      metadata |-> metadata, content_preview |-> content_preview,
                      file_hash |-> create_file_hash(text)]
    IN  IF raises \/ UpdateRaises(record) THEN record
        ELSE ArrayUnionField(record, "files", file_data)

\* download_file: None, or the content fetched; net is what the request brings
download_file(url, net) ==
    IF url = "" \/ ~StrStartsWith(url, "http") THEN None ELSE net

\* get_user_files(user_id)
get_user_files(record) == IF record = NoRecord THEN <<>> ELSE GetList(record, "files")

\* the loop of enhance_existing_files from the i-th file on; dl[i] is what a request
\* for the i-th file's url brings
RECURSIVE EnhanceLoop(_, _, _, _, _)
EnhanceLoop(files, dl, i, updated_files, updated_count) ==
    IF i > Len(files)
    THEN [updated_files |-> updated_files, updated_count |-> updated_count]
    ELSE LET file == files[i]
             url == IF "url" \in DOMAIN file THEN file.url ELSE ""
             file_type == IF "type" \in DOMAIN file THEN file.type ELSE ""
             temp_path == download_file(url, dl[i])
         IN  IF "content_preview" \in DOMAIN file /\ file.content_preview # ""
             THEN EnhanceLoop(files, dl, i + 1, Append(updated_files, file), updated_count)
             ELSE IF url # "" /\ file_type = "pdf" /\ temp_path # None
             THEN EnhanceLoop(files, dl, i + 1,
                      Append(updated_files,
                             DictUpdate(file,
                                 [metadata |-> extract_pdf_metadata(temp_path[1]),
                                  content_preview |-> extract_text_preview(temp_path[1], PreviewChars),
                                  file_hash |-> create_file_hash(temp_path[1])])),
                      updated_count + 1)
             ELSE EnhanceLoop(files, dl, i + 1, updated_files, updated_count)

\* enhance_existing_files: [count, record], the number returned and the user's record
\* afterwards; update_raises: the update raises for a reason of the network
enhance_existing_files(record, dl, update_raises) ==
    LET files == get_user_files(record)
        loop == EnhanceLoop(files, dl, 1, <<>>, 0)
    IN  IF files = <<>> THEN [count |-> 0, record |-> record]
        ELSE IF loop.updated_count > 0
        THEN IF update_raises THEN [count |-> 0, record |-> record]
             ELSE [count |-> loop.updated_count,
                   record |-> [record EXCEPT !.files = loop.updated_files]]
        ELSE [count |-> 0, record |-> record]

\* the files the bot stores, with the cloud and without it
EnhanceStores ==
    {[file_name |-> "photo.png", file_type |-> "images", cloud |-> "ok"],
     [file_name |-> "report.pdf", file_type |-> "documents", cloud |-> "disabled"]}

\* the files uploaded through the helper: a scanned pdf without text, a pdf with
\* text, a pdf stored without metadata, and an image
EnhanceUploads ==
    {[file_name |-> "scan.pdf", file_type |-> "pdf", extract_metadata |-> TRUE, text |-> ""],
     [file_name |-> "book.pdf", file_type |-> "pdf", extract_metadata |-> TRUE, text |-> "Chapter 1"],
     [file_name |-> "raw.pdf", file_type |-> "pdf", extract_metadata |-> FALSE, text |-> "Chapter 1"],
     [file_name |-> "logo.png", file_type |-> "png", extract_metadata |-> TRUE, text |-> ""]}

\* what a request for a stored file brings: nothing, a file without text, a file with text
NetOutcomes == {None, Some(""), Some("Chapter 1")}

\* the process runs; the first user has a record and the second has none
InitEnhance ==
    /\ InitProgram
    /\ db = [u \in Users |-> IF u = "u1" THEN DefaultData(<<0, 0>>) ELSE NoRecord]
    /\ call = NoCall

CallStoreFile ==
    /\ nreq < MaxFiles
    /\ \E u \in Users, p \in EnhanceStores :
         LET r == StoreFile(db[u], u, p.file_name, p.file_type, Stamp(nreq + 1),
                            [cloud |-> p.cloud, add_raises |-> FALSE, copy_raises |-> FALSE,
                             add_again_raises |-> FALSE])
         IN  /\ db' = [db EXCEPT ![u] = r.record]
             /\ call' = [fn |-> "store_file", text |-> u, out |-> <<r.url>>]
    /\ nreq' = nreq + 1
    /\ UNCHANGED <<contents, user_sessions, req, now, nextReap, hist>>

CallUploadFile ==
    /\ nreq < MaxFiles
    /\ \E u \in Users, p \in EnhanceUploads, raises \in BOOLEAN :
         /\ db' = [db EXCEPT ![u] = upload_file(@, u, p.file_name, p.file_type,
                                                 p.extract_metadata, p.text,
                                                 Stamp(nreq + 1), raises)]
         /\ call' = [fn |-> "upload_file", text |-> u, out |-> <<p.file_name>>]
    /\ nreq' = nreq + 1
    /\ UNCHANGED <<contents, user_sessions, req, now, nextReap, hist>>

\* the pass over one user's files; the call is recorded with the count returned and
\* the files array read at the start
CallEnhanceExistingFiles ==
    /\ \E u \in Users, update_raises \in BOOLEAN :
         LET files == get_user_files(db[u]) IN
         \E dl \in [1..Len(files) -> NetOutcomes] :
            LET r == enhance_existing_files(db[u], dl, update_raises) IN
            /\ db' = [db EXCEPT ![u] = r.record]
            /\ call' = [fn |-> "enhance_existing_files", text |-> u,
                        out |-> <<IntStr(r.count), files>>]
    /\ UNCHANGED <<contents, user_sessions, req, now, nextReap, nreq, hist>>

NextEnhance == CallStoreFile \/ CallUploadFile \/ CallEnhanceExistingFiles

\* files stored by the bot and through the helper, and the metadata pass over them
SpecEnhance == InitEnhance /\ [][NextEnhance]_vars

\* the names and urls of a files array, in its order
NamesAndUrls(files) == [i \in 1..Len(files) |-> <<files[i].name, files[i].url>>]

\* a is b with some of its entries left out
RECURSIVE IsSubSeq(_, _)
IsSubSeq(a, b) ==
    IF a = <<>> THEN TRUE
    ELSE IF b = <<>> THEN FALSE
    ELSE IF Head(a) = Head(b) THEN IsSubSeq(Tail(a), Tail(b))
    ELSE IsSubSeq(a, Tail(b))

\* C28: after enhance_existing_files the user's files array holds an entry for
\* every file that was in it before the pass, with the same name and url and in the
\* same relative order, whatever the file types and the outcomes of the downloads.
C28_NoFileLost ==
    call.fn = "enhance_existing_files" =>
        IsSubSeq(NamesAndUrls(call.out[2]), NamesAndUrls(get_user_files(db[call.text])))

\* the entries of the user's files array that the request f filed
FileRefsOf(f) ==
    LET files == GetList(db[f.user_id[1]], "files") IN
    {i \in 1..Len(files) : files[i].uploaded_at[2] = f.id}

\* C29: store_file returns a non-empty URL if and only if the call appended exactly
\* one FileRef to the user's files; when it returns "" it appended none, and no call
\* appends more than one, the fallback after a failed cloud branch included.
C29_UrlIffOneFileRef ==
    [][\A s \in Slots :
          (req[s].pc = "store_file" /\ req'[s].pc = "after_store") =>
              LET u == req[s].user_id[1]
                  before == GetList(db[u], "files")
                  after == GetList(db'[u], "files")
                  url == req'[s].file_url
              IN  /\ Len(after) = Len(before) + (IF url # "" THEN 1 ELSE 0)
                  /\ SubSeq(after, 1, Len(before)) = before
                  /\ url # "" => /\ after[Len(after)].url = url
                                 /\ after[Len(after)].name = req[s].file_name
                                 /\ after[Len(after)].uploaded_at[2] = req[s].id
                  /\ url = "" => db'[u] = db[u]]_vars

\* the cloud branch raised, the local copy took over, one FileRef was filed after
\* the one the user had
C29_Witness ==
    \E s \in Slots :
        LET f == req[s]
            files == GetList(db[f.user_id[1]], "files")
        IN  /\ f.pc = "after_store"
            /\ f.cloud = "raises"
            /\ f.file_url = BaseUrl \o "/files/u1/images/" \o f.file_name
            /\ Len(files) = 2
            /\ FileRefsOf(f) = {2}
            /\ files[2].storage_type = "local"

(***************************************************************************)
(* Requests of two users, one after the other                              *)
(***************************************************************************)
FrameMaxReqs == 2       \* webhook requests received in SpecFrame

\* one update of each kind the handler dispatches on, from either user
FramePayloads ==
    {Payload("text", u, t) : u \in Users,
        t \in {"/start", "/tasks", "Remind me to call mom tomorrow at 5pm",
               "save this note", "hello there"}}
    \cup {FilePayload("document", u, "report.pdf", <<120>>, "") : u \in Users}
    \cup {FilePayload("photo", u, "", <<>>, "total 42") : u \in Users}

NextFrame ==
    \/ Receive(FramePayloads, FrameMaxReqs, 1)
    \/ \E s \in Slots : CmdStatic(s)
    \/ \E s \in Slots : CmdListRead(s)
    \/ \E s \in Slots : CmdListSet(s)
    \/ \E s \in Slots : CreateTask(s)
    \/ \E s \in Slots : CreateNote(s)
    \/ \E s \in Slots : ConversationStart(s)
    \/ \E s \in Slots : ConversationEnd(s)
    \/ \E s \in Slots : Download(s)
    \/ \E s \in Slots : StoreUpload(s)
    \/ \E s \in Slots : FinishUpload(s)

\* the webhook handler on a request of one user and then a request of either user
SpecFrame == Init /\ [][NextFrame]_vars

\* C30: a step of the handler changes the session map only for the user of a
\* request on the conversation path: commands, task and note texts, documents and
\* photos leave every session as it is, and a conversation turn leaves the
\* sessions of the other users (messages and last_interaction) as they are.
C30_SessionFrame ==
    [][\A u \in Users :
          user_sessions'[u] # user_sessions[u] =>
              \E s \in Slots : /\ req'[s] # req[s]
                               /\ req[s].route = "conversation"
                               /\ req[s].user_id = Some(u)]_vars

\* the second user's turn is over and the first user's session is as the first
\* user's own turn left it
C30_Witness ==
    \E s \in Slots :
        /\ req[s].pc = "done" /\ req[s].route = "conversation" /\ req[s].id = 2
        /\ req[s].user_id = Some("u2")
        /\ user_sessions["u2"] # NoSession
        /\ user_sessions["u2"].last_interaction = <<0, 2>>
        /\ user_sessions["u1"] # NoSession
        /\ user_sessions["u1"].last_interaction = <<0, 1>>
        /\ user_sessions["u1"].messages = hist["u1"]
        /\ \E k \in 1..Len(hist["u1"]) : hist["u1"][k].role = "assistant"

====
